---- MODULE Spec2Model ----
(***************************************************************************)
(* Session-end journal pipeline of backend/main.py: the module-level       *)
(* journal_cache, the coroutine run_journal_pipeline, and the two request  *)
(* handlers end_session and get_journal, all running on one asyncio event  *)
(* loop thread.                                                            *)
(*                                                                         *)
(* Text is a sequence of characters (one-character strings; the literal    *)
(* parts of the prompt templates are single tokens).  A Python dict is a   *)
(* function whose DOMAIN is its key set.  None is PyNone where a dict is   *)
(* expected and NoneText where a str is expected.                          *)
(***************************************************************************)
EXTENDS Integers, Sequences, FiniteSets, TLC

VARIABLES
    journal_cache,  \* main.py:70   dict: session id -> entry dict
    ready,          \* the event loop's queue of created, not yet started tasks
    running,        \* frame of the coroutine that holds the loop thread
    reply,          \* return value of the request handler that just ran
    errored,        \* history: ids for which an except-branch write happened
    escaped,        \* history: ids whose run let an exception leave the coroutine
    deliveries,     \* history: how many get_journal replies in a row, up to now,
                    \* returned the entry of reply.body.session_id
    triggered       \* history: ids for which end_session has created a task

vars == <<journal_cache, ready, running, reply, errored, escaped, deliveries, triggered>>

----------------------------------------------------------------------------
(* Bounds and input alphabets                                              *)

SessionIds == {<<"A">>, <<"B">>}

\* most tasks created by end_session and not yet started by the loop
MaxReady == 2

\* the count of consecutive deliveries saturates here
MaxDeliveries == 2

\* related_memory keeps remedy_context[:200]
RelatedMemoryLimit == 200

\* search_similar(full_doc, k=3)
TopK == 3

PyNone == [py |-> "None"]

NoneText == <<"None">>

\* str(e) of the exceptions a collaborator raises; Exception() prints as ""
ExcMessages == {<<>>, <<"b", "o", "o", "m">>}

\* values generate_response returns
Responses == {<<"r", "1">>, <<"r", "2">>}

\* values process_session returns
NodeIdLists == {<<"n1">>}

NL == "\n"

ShortContent == <<"m", "e", "m">>

LongContent == [i \in 1..(RelatedMemoryLimit + 1) |-> IF i <= RelatedMemoryLimit THEN "z" ELSE "!"]

\* rows db.get_raw_events_by_session returns, in stored order
EventLists ==
    { <<>>,
      <<[source |-> "ocr", text |-> <<"a">>],
        [source |-> "click", text |-> <<"x">>],
        [source |-> "asr", text |-> <<"b">>]>> }

\* ranked (score, content) lists search_similar returns, at most TopK long
CandidateLists ==
    { <<>>,
      <<<<9, ShortContent>>>>,
      <<<<1, LongContent>>, <<7, ShortContent>>>>,
      <<<<5, <<>>>>, <<4, ShortContent>>, <<3, ShortContent>>>> }

\* ranked lists whose best match is the content process_session has just
\* indexed for the session that is searching
SelfCandidateLists(full_doc) == { <<<<8, full_doc>>, <<2, ShortContent>>>> }

----------------------------------------------------------------------------
(* Pure helpers                                                            *)

\* truth value of a dict (or None) in `if entry:`
DictTruthy(d) == d # PyNone /\ DOMAIN d # {}

\* truth value of a str or list in `if x:`
SeqTruthy(s) == Len(s) > 0

\* dict.get(key): the value, or None when the key is missing
DictGet(d, k) == IF k \in DOMAIN d THEN d[k] ELSE PyNone

\* d[k] = v on a dict
DictSet(d, k, v) == [x \in DOMAIN d \cup {k} |-> IF x = k THEN v ELSE d[x]]

RECURSIVE JoinNewline(_)
\* "\n".join(texts)
JoinNewline(texts) ==
    IF texts = <<>> THEN <<>>
    ELSE IF Len(texts) = 1 THEN texts[1]
    ELSE texts[1] \o <<NL>> \o JoinNewline(Tail(texts))

RECURSIVE EventTextsUnfiltered(_)
\* variant: the source filter is missing
EventTextsUnfiltered(raw_events) ==
    IF raw_events = <<>> THEN <<>>
    ELSE <<Head(raw_events).text>> \o EventTextsUnfiltered(Tail(raw_events))

RECURSIVE EventTexts(_)
\* event["text"] for event in raw_events if event["source"] in ("asr", "ocr")
EventTexts(raw_events) ==
    IF raw_events = <<>> THEN <<>>
    ELSE IF Head(raw_events).source \in {"asr", "ocr"}
         THEN <<Head(raw_events).text>> \o EventTexts(Tail(raw_events))
         ELSE EventTexts(Tail(raw_events))

SessionDocument(raw_events) == JoinNewline(EventTexts(raw_events))

\* variant: the candidate with the highest score is taken
SelectContextBestScore(similar_results) ==
    IF SeqTruthy(similar_results)
    THEN LET best == CHOOSE i \in 1..Len(similar_results) :
                         \A j \in 1..Len(similar_results) :
                             similar_results[i][1] >= similar_results[j][1]
         IN similar_results[best][2]
    ELSE <<>>

\* remedy_context = "" ; if similar_results: remedy_context = similar_results[0][1]
SelectContext(similar_results) ==
    IF SeqTruthy(similar_results) THEN similar_results[1][2] ELSE <<>>

PromptWithContext(full_doc, remedy_context) ==
    <<"Current session:">> \o full_doc
    \o <<"This is the most relevant past experience that could be helpful for this results:">>
    \o remedy_context
    \o <<"Task: summary; guidance from the related past experience; reference it specifically; under 120 words">>

PromptNoContext(full_doc) ==
    <<"Current session:">> \o full_doc
    \o <<"Task: summary; guidance based on the content; under 120 words">>

BuildPrompt(full_doc, remedy_context) ==
    IF SeqTruthy(remedy_context)
    THEN PromptWithContext(full_doc, remedy_context)
    ELSE PromptNoContext(full_doc)

Min(a, b) == IF a < b THEN a ELSE b

\* s[:n]
Prefix(s, n) == SubSeq(s, 1, Min(Len(s), n))

\* variant: the slice is missing
RelatedMemoryUntruncated(remedy_context) ==
    IF SeqTruthy(remedy_context) THEN remedy_context ELSE NoneText

\* variant: the `else None` is missing
RelatedMemoryNoGuard(remedy_context) == Prefix(remedy_context, RelatedMemoryLimit)

\* remedy_context[:200] if remedy_context else None
RelatedMemory(remedy_context) ==
    IF SeqTruthy(remedy_context) THEN Prefix(remedy_context, RelatedMemoryLimit) ELSE NoneText

\* the dict stored on success
SuccessEntry(response, remedy_context) ==
    [summary_action |-> response, related_memory |-> RelatedMemory(remedy_context)]

\* variant: the except branch also fills the success key
ErrorEntryWithSummary(msg) == [summary_action |-> NoneText, error |-> msg]

\* the dict stored by the except branch
ErrorEntry(msg) == [error |-> msg]

----------------------------------------------------------------------------
(* The event loop thread                                                   *)

Idle ==
    [pc |-> "idle", blocked |-> FALSE, session_id |-> NoneText, node_ids |-> <<>>,
     raw_events |-> <<>>, full_doc |-> NoneText, similar_results |-> <<>>, remedy_context |-> NoneText,
     prompt |-> NoneText, response |-> NoneText, e |-> NoneText]

NoReply == [handler |-> "none", body |-> PyNone]

\* the loop thread can pick up a request or a ready task
LoopFree == running.pc = "idle"

\* the pcs at which the coroutine is inside a collaborator call
CallPcs == {"process_session", "get_raw_events", "search_similar", "generate_response"}

Init ==
    /\ journal_cache = [s \in {} |-> PyNone]
    /\ ready = <<>>
    /\ running = Idle
    /\ reply = NoReply
    /\ errored = {}
    /\ escaped = {}
    /\ deliveries = 0
    /\ triggered = {}

\* the count of deliveries in a row after get_journal(session_id) returned body
Delivered(session_id, body) ==
    IF body.status # "done" THEN 0
    ELSE IF /\ reply.handler = "get_journal"
            /\ reply.body.status = "done"
            /\ reply.body.session_id = session_id
         THEN Min(deliveries + 1, MaxDeliveries)
         ELSE 1

\* variant: the handler awaits the pipeline instead of creating a task
EndSessionAwaitsPipeline(session_id) ==
    /\ LoopFree
    /\ Len(ready) < MaxReady
    /\ running' = [Idle EXCEPT !.pc = "process_session", !.session_id = session_id]
    /\ reply' = [handler |-> "end_session",
                 body |-> [status |-> "processing", session_id |-> session_id]]
    /\ deliveries' = 0
    /\ triggered' = triggered \cup {session_id}
    /\ UNCHANGED <<journal_cache, ready, errored, escaped>>

\* variant: the handler drops the id's previous entry before scheduling
EndSessionClearsEntry(session_id) ==
    /\ LoopFree
    /\ Len(ready) < MaxReady
    /\ ready' = Append(ready, session_id)
    /\ journal_cache' = [s \in DOMAIN journal_cache \ {session_id} |-> journal_cache[s]]
    /\ reply' = [handler |-> "end_session",
                 body |-> [status |-> "processing", session_id |-> session_id]]
    /\ deliveries' = 0
    /\ triggered' = triggered \cup {session_id}
    /\ UNCHANGED <<running, errored, escaped>>

\* POST /api/session/end
EndSession(session_id) ==
    /\ LoopFree
    /\ Len(ready) < MaxReady
    /\ ready' = Append(ready, session_id)
    /\ reply' = [handler |-> "end_session",
                 body |-> [status |-> "processing", session_id |-> session_id]]
    /\ deliveries' = 0
    /\ triggered' = triggered \cup {session_id}
    /\ UNCHANGED <<journal_cache, running, errored, escaped>>

\* variant: the reply leaves out the entry's fields
GetJournalStatusOnly(session_id) ==
    /\ LoopFree
    /\ LET entry == DictGet(journal_cache, session_id)
       IN reply' = [handler |-> "get_journal",
                    body |-> IF DictTruthy(entry)
                             THEN [status |-> "done", session_id |-> session_id]
                             ELSE [status |-> "processing", session_id |-> session_id]]
    /\ deliveries' = Delivered(session_id, reply'.body)
    /\ UNCHANGED <<journal_cache, ready, running, errored, escaped, triggered>>

\* variant: only an entry with a summary counts as done
GetJournalSuccessOnly(session_id) ==
    /\ LoopFree
    /\ LET entry == DictGet(journal_cache, session_id)
       IN reply' = [handler |-> "get_journal",
                    body |-> IF DictTruthy(entry) /\ "summary_action" \in DOMAIN entry
                             THEN entry @@ [status |-> "done", session_id |-> session_id]
                             ELSE [status |-> "processing", session_id |-> session_id]]
    /\ deliveries' = Delivered(session_id, reply'.body)
    /\ UNCHANGED <<journal_cache, ready, running, errored, escaped, triggered>>

\* variant: the poll hands the entry over and removes it from the cache
GetJournalConsumes(session_id) ==
    /\ LoopFree
    /\ LET entry == DictGet(journal_cache, session_id)
       IN reply' = [handler |-> "get_journal",
                    body |-> IF DictTruthy(entry)
                             THEN entry @@ [status |-> "done", session_id |-> session_id]
                             ELSE [status |-> "processing", session_id |-> session_id]]
    /\ deliveries' = Delivered(session_id, reply'.body)
    /\ journal_cache' = [s \in DOMAIN journal_cache \ {session_id} |-> journal_cache[s]]
    /\ UNCHANGED <<ready, running, errored, escaped, triggered>>

\* variant: the handler is served while the coroutine waits in a collaborator call
GetJournalWhileSuspended(session_id) ==
    /\ LoopFree \/ running.pc \in CallPcs
    /\ LET entry == DictGet(journal_cache, session_id)
       IN reply' = [handler |-> "get_journal",
                    body |-> IF DictTruthy(entry)
                             THEN entry @@ [status |-> "done", session_id |-> session_id]
                             ELSE [status |-> "processing", session_id |-> session_id]]
    /\ deliveries' = Delivered(session_id, reply'.body)
    /\ UNCHANGED <<journal_cache, ready, running, errored, escaped, triggered>>

\* variant: a miss stores an empty dict for the id (setdefault)
GetJournalStoresMiss(session_id) ==
    /\ LoopFree
    /\ LET entry == DictGet(journal_cache, session_id)
       IN reply' = [handler |-> "get_journal",
                    body |-> IF DictTruthy(entry)
                             THEN entry @@ [status |-> "done", session_id |-> session_id]
                             ELSE [status |-> "processing", session_id |-> session_id]]
    /\ deliveries' = Delivered(session_id, reply'.body)
    /\ journal_cache' = IF session_id \in DOMAIN journal_cache
                        THEN journal_cache
                        ELSE DictSet(journal_cache, session_id, [k \in {} |-> NoneText])
    /\ UNCHANGED <<ready, running, errored, escaped, triggered>>

\* POST /api/journal
GetJournal(session_id) ==
    /\ LoopFree
    /\ LET entry == DictGet(journal_cache, session_id)
       IN reply' = [handler |-> "get_journal",
                    body |-> IF DictTruthy(entry)
                             THEN entry @@ [status |-> "done", session_id |-> session_id]
                             ELSE [status |-> "processing", session_id |-> session_id]]
    /\ deliveries' = Delivered(session_id, reply'.body)
    /\ UNCHANGED <<journal_cache, ready, running, errored, escaped, triggered>>

\* variant: a starting run first removes the id's previous entry
StartTaskClearsEntry ==
    /\ LoopFree
    /\ ready # <<>>
    /\ running' = [Idle EXCEPT !.pc = "process_session", !.session_id = Head(ready)]
    /\ ready' = Tail(ready)
    /\ journal_cache' = [s \in DOMAIN journal_cache \ {Head(ready)} |-> journal_cache[s]]
    /\ reply' = NoReply
    /\ deliveries' = 0
    /\ UNCHANGED <<errored, escaped, triggered>>

\* the loop starts the oldest created task; the coroutine runs to its first call
StartTask ==
    /\ LoopFree
    /\ ready # <<>>
    /\ running' = [Idle EXCEPT !.pc = "process_session", !.session_id = Head(ready)]
    /\ ready' = Tail(ready)
    /\ reply' = NoReply
    /\ deliveries' = 0
    /\ UNCHANGED <<journal_cache, errored, escaped, triggered>>

\* node_ids = process_session(session_id)
ProcessSession ==
    /\ running.pc = "process_session" /\ ~running.blocked
    /\ \E ids \in NodeIdLists :
         running' = [running EXCEPT !.pc = "get_raw_events", !.node_ids = ids]
    /\ reply' = NoReply
    /\ deliveries' = 0
    /\ UNCHANGED <<journal_cache, ready, errored, escaped, triggered>>

\* raw_events = db.get_raw_events_by_session(session_id); full_doc = ...
GetRawEvents ==
    /\ running.pc = "get_raw_events" /\ ~running.blocked
    /\ \E raw_events \in EventLists :
         running' = [running EXCEPT !.pc = "search_similar",
                                    !.raw_events = raw_events,
                                    !.full_doc = SessionDocument(raw_events)]
    /\ reply' = NoReply
    /\ deliveries' = 0
    /\ UNCHANGED <<journal_cache, ready, errored, escaped, triggered>>

\* variant: candidates carrying the searching session's own document are skipped
SearchSimilarExcludesCurrent ==
    /\ running.pc = "search_similar" /\ ~running.blocked
    /\ \E similar_results \in CandidateLists \cup SelfCandidateLists(running.full_doc) :
         /\ Len(similar_results) <= TopK
         /\ LET FromOther(c) == c[2] # running.full_doc
                remedy_context == SelectContext(SelectSeq(similar_results, FromOther))
            IN running' = [running EXCEPT
                             !.pc = "generate_response",
                             !.similar_results = similar_results,
                             !.remedy_context = remedy_context,
                             !.prompt = BuildPrompt(running.full_doc, remedy_context)]
    /\ reply' = NoReply
    /\ deliveries' = 0
    /\ UNCHANGED <<journal_cache, ready, errored, escaped, triggered>>

\* similar_results = search_similar(full_doc, k=3); remedy_context; prompt
SearchSimilar ==
    /\ running.pc = "search_similar" /\ ~running.blocked
    /\ \E similar_results \in CandidateLists \cup SelfCandidateLists(running.full_doc) :
         /\ Len(similar_results) <= TopK
         /\ LET remedy_context == SelectContext(similar_results)
            IN running' = [running EXCEPT
                             !.pc = "generate_response",
                             !.similar_results = similar_results,
                             !.remedy_context = remedy_context,
                             !.prompt = BuildPrompt(running.full_doc, remedy_context)]
    /\ reply' = NoReply
    /\ deliveries' = 0
    /\ UNCHANGED <<journal_cache, ready, errored, escaped, triggered>>

\* response = llm_service.generate_response(prompt, [])
GenerateResponse ==
    /\ running.pc = "generate_response" /\ ~running.blocked
    /\ \E response \in Responses :
         running' = [running EXCEPT !.pc = "cache_result", !.response = response]
    /\ reply' = NoReply
    /\ deliveries' = 0
    /\ UNCHANGED <<journal_cache, ready, errored, escaped, triggered>>

\* variant: the success write updates the existing dict instead of replacing it
CacheResultMerges ==
    /\ running.pc = "cache_result"
    /\ LET old == DictGet(journal_cache, running.session_id)
           new == SuccessEntry(running.response, running.remedy_context)
       IN journal_cache' = DictSet(journal_cache, running.session_id,
                                   IF DictTruthy(old) THEN new @@ old ELSE new)
    /\ running' = Idle
    /\ reply' = NoReply
    /\ deliveries' = 0
    /\ UNCHANGED <<ready, errored, escaped, triggered>>

\* journal_cache[session_id] = {"summary_action": ..., "related_memory": ...}
CacheResult ==
    /\ running.pc = "cache_result"
    /\ journal_cache' = DictSet(journal_cache, running.session_id,
                                SuccessEntry(running.response, running.remedy_context))
    /\ running' = Idle
    /\ reply' = NoReply
    /\ deliveries' = 0
    /\ UNCHANGED <<ready, errored, escaped, triggered>>

\* variant: a failed call restarts the pipeline
CollaboratorRaisesRetries ==
    /\ running.pc \in CallPcs /\ ~running.blocked
    /\ \E msg \in ExcMessages :
         running' = [running EXCEPT !.pc = "process_session", !.e = msg]
    /\ reply' = NoReply
    /\ deliveries' = 0
    /\ UNCHANGED <<journal_cache, ready, errored, escaped, triggered>>

\* a collaborator call raises an Exception; control moves to the except clause
CollaboratorRaises ==
    /\ running.pc \in CallPcs /\ ~running.blocked
    /\ \E msg \in ExcMessages :
         running' = [running EXCEPT !.pc = "except", !.e = msg]
    /\ reply' = NoReply
    /\ deliveries' = 0
    /\ UNCHANGED <<journal_cache, ready, errored, escaped, triggered>>

\* variant: the except clause does not match and the exception leaves the coroutine
ExceptHandlerReraises ==
    /\ running.pc = "except"
    /\ escaped' = escaped \cup {running.session_id}
    /\ running' = Idle
    /\ reply' = NoReply
    /\ deliveries' = 0
    /\ UNCHANGED <<journal_cache, ready, errored, triggered>>

\* variant: the except clause only logs
ExceptHandlerLogsOnly ==
    /\ running.pc = "except"
    /\ errored' = errored \cup {running.session_id}
    /\ running' = Idle
    /\ reply' = NoReply
    /\ deliveries' = 0
    /\ UNCHANGED <<journal_cache, ready, escaped, triggered>>

\* variant: the except clause rebinds the cache to a dict holding only this error
ExceptHandlerResetsCache ==
    /\ running.pc = "except"
    /\ journal_cache' = [s \in {running.session_id} |-> ErrorEntry(running.e)]
    /\ errored' = errored \cup {running.session_id}
    /\ running' = Idle
    /\ reply' = NoReply
    /\ deliveries' = 0
    /\ UNCHANGED <<ready, escaped, triggered>>

\* variant: the except clause keeps an entry that is already there (setdefault)
ExceptHandlerKeepsExisting ==
    /\ running.pc = "except"
    /\ journal_cache' = IF running.session_id \in DOMAIN journal_cache
                        THEN journal_cache
                        ELSE DictSet(journal_cache, running.session_id, ErrorEntry(running.e))
    /\ errored' = errored \cup {running.session_id}
    /\ running' = Idle
    /\ reply' = NoReply
    /\ deliveries' = 0
    /\ UNCHANGED <<ready, escaped, triggered>>

\* except Exception as e: journal_cache[session_id] = {"error": str(e)}
ExceptHandler ==
    /\ running.pc = "except"
    /\ journal_cache' = DictSet(journal_cache, running.session_id, ErrorEntry(running.e))
    /\ errored' = errored \cup {running.session_id}
    /\ running' = Idle
    /\ reply' = NoReply
    /\ deliveries' = 0
    /\ UNCHANGED <<ready, escaped, triggered>>

\* a collaborator call never returns: the synchronous call keeps the loop thread
CollaboratorHangs ==
    /\ running.pc \in CallPcs /\ ~running.blocked
    /\ running' = [running EXCEPT !.blocked = TRUE]
    /\ reply' = NoReply
    /\ deliveries' = 0
    /\ UNCHANGED <<journal_cache, ready, errored, escaped, triggered>>

\* one step of the event loop thread in which every call returns or raises
LoopStep ==
    \/ StartTask
    \/ ProcessSession
    \/ GetRawEvents
    \/ SearchSimilar
    \/ GenerateResponse
    \/ CacheResult
    \/ CollaboratorRaises
    \/ ExceptHandler

Next ==
    \/ \E session_id \in SessionIds : EndSession(session_id)
    \/ \E session_id \in SessionIds : GetJournal(session_id)
    \/ StartTask
    \/ ProcessSession
    \/ GetRawEvents
    \/ SearchSimilar
    \/ GenerateResponse
    \/ CacheResult
    \/ CollaboratorRaises
    \/ ExceptHandler
    \/ CollaboratorHangs

Spec == Init /\ [][Next]_vars

\* every call returns or raises
NextReturning ==
    \/ \E session_id \in SessionIds : EndSession(session_id)
    \/ \E session_id \in SessionIds : GetJournal(session_id)
    \/ LoopStep

\* the loop keeps running ready tasks and the running coroutine keeps stepping
FairSpec == Init /\ [][NextReturning]_vars /\ WF_vars(LoopStep)

----------------------------------------------------------------------------
(* Properties                                                              *)

\* a run for session_id has been created and has not finished
InFlight(session_id) ==
    \/ \E i \in 1..Len(ready) : ready[i] = session_id
    \/ running.session_id = session_id

\* the step in which the running coroutine finishes
RunFinishes == running.pc # "idle" /\ running'.pc = "idle"

\* C1: a run never lets an exception out: when it finishes, the cache has an
\* entry for its session id, and if a collaborator raised, that entry is
\* exactly {error: str(e)}.
C1_PipelineNeverPropagates ==
    [][RunFinishes =>
         /\ escaped' = {}
         /\ running.session_id \in DOMAIN journal_cache'
         /\ (running.e # NoneText =>
               /\ DOMAIN journal_cache'[running.session_id] = {"error"}
               /\ journal_cache'[running.session_id].error = running.e)
         /\ (running.e = NoneText => running.pc = "cache_result")]_vars

W_C1 ==
    /\ LoopFree
    /\ \E s \in errored : journal_cache[s] = [error |-> <<"b", "o", "o", "m">>]

\* C2: every stored entry has summary_action or error, never both, never
\* neither.
C2_EntryShapes ==
    \A s \in DOMAIN journal_cache :
        LET entry == journal_cache[s]
        IN /\ ("summary_action" \in DOMAIN entry) \/ ("error" \in DOMAIN entry)
           /\ ~(("summary_action" \in DOMAIN entry) /\ ("error" \in DOMAIN entry))

W_C2 ==
    \E a, b \in DOMAIN journal_cache :
        /\ "summary_action" \in DOMAIN journal_cache[a]
        /\ "error" \in DOMAIN journal_cache[b]

\* C3: a poll answers "processing" exactly when the id has no cache entry,
\* and otherwise "done" with the id and the entry's fields unchanged.
C3_PollReply ==
    [][\A s \in SessionIds :
         GetJournal(s) =>
           LET body == reply'.body
           IN /\ body.session_id = s
              /\ (body.status = "processing") <=> (s \notin DOMAIN journal_cache)
              /\ s \notin DOMAIN journal_cache => DOMAIN body = {"status", "session_id"}
              /\ s \in DOMAIN journal_cache =>
                   /\ body.status = "done"
                   /\ DOMAIN body = {"status", "session_id"} \cup DOMAIN journal_cache[s]
                   /\ \A k \in DOMAIN journal_cache[s] : body[k] = journal_cache[s][k]]_vars

W_C3 ==
    /\ reply.handler = "get_journal"
    /\ reply.body.status = "done"
    /\ "summary_action" \in DOMAIN reply.body
    /\ reply.body.related_memory # NoneText

\* C4: after end_session replied for an id, a state with a cache entry for
\* that id follows, when the loop is scheduled fairly and every call returns
\* or raises.
C4_TriggerLeadsToEntry ==
    \A s \in SessionIds :
        (reply.handler = "end_session" /\ reply.body.session_id = s)
            ~> (s \in DOMAIN journal_cache)

W_C4 ==
    /\ LoopFree
    /\ ready = <<>>
    /\ DOMAIN journal_cache = SessionIds

\* C5: while a collaborator call of one run never returns, polls are still
\* answered and the created runs of other sessions can still start.
C5_HungCallStallsOnlyItsRun ==
    running.blocked =>
        /\ \A s \in SessionIds : ENABLED GetJournal(s)
        /\ ready # <<>> => ENABLED StartTask

\* C6: a step changes the cache only at the key of the run that is writing
\* its result; every other id keeps its entry or its absence.
C6_WritesOnlyOwnKey ==
    [][\A b \in SessionIds :
         DictGet(journal_cache', b) # DictGet(journal_cache, b) =>
           /\ running.session_id = b
           /\ running.pc \in {"cache_result", "except"}]_vars

W_C6 ==
    \E a, b \in SessionIds :
        /\ a # b
        /\ a \in errored /\ a \in DOMAIN journal_cache
        /\ "error" \in DOMAIN journal_cache[a]
        /\ b \in DOMAIN journal_cache
        /\ "summary_action" \in DOMAIN journal_cache[b]
        /\ InFlight(b)

\* C7: once an error was recorded for an id, every poll for it answers
\* "done" and carries an entry.
C7_NoProcessingAfterError ==
    [][\A s \in errored :
         GetJournal(s) =>
           /\ reply'.body.status = "done"
           /\ ("error" \in DOMAIN reply'.body) \/ ("summary_action" \in DOMAIN reply'.body)]_vars

W_C7 ==
    /\ reply.handler = "get_journal"
    /\ reply.body.session_id \in errored
    /\ reply.body.status = "done"
    /\ "error" \in DOMAIN reply.body
    /\ reply.body.error = <<>>

\* C8: end_session creates the task and replies "processing" at once: the
\* cache is untouched, the new run is the last created task and has not
\* started, whether or not the id has an entry.
C8_EndSessionOnlySchedules ==
    [][\A s \in SessionIds :
         EndSession(s) =>
           /\ reply'.body = [status |-> "processing", session_id |-> s]
           /\ journal_cache' = journal_cache
           /\ running' = running /\ running'.pc = "idle"
           /\ ready' = Append(ready, s)]_vars

W_C8 ==
    /\ reply.handler = "end_session"
    /\ reply.body.session_id \in DOMAIN journal_cache
    /\ ready # <<>>
    /\ ready[Len(ready)] = reply.body.session_id

\* C9 as stated: right after end_session replied for an id, the id has no
\* cache row.
C9_RetriggerClearsEntry ==
    reply.handler = "end_session" => reply.body.session_id \notin DOMAIN journal_cache

\* C9 amended: re-triggering leaves the prior entry in place; it stays, and
\* polls answer "done", until the new run's own write replaces it.
C9_RetriggerKeepsEntry ==
    [][\A s \in DOMAIN journal_cache :
         /\ s \in DOMAIN journal_cache'
         /\ journal_cache'[s] # journal_cache[s] =>
              /\ running.session_id = s
              /\ running.pc \in {"cache_result", "except"}
         /\ GetJournal(s) => reply'.body.status = "done"]_vars

W_C9 ==
    /\ reply.handler = "get_journal"
    /\ reply.body.status = "done"
    /\ \E i \in 1..Len(ready) : ready[i] = reply.body.session_id

\* C10: a successful run for an id whose entry is an error replaces the
\* entry by its own success shape, with no error field; the cache never
\* holds more entries than there are ids.
C10_SuccessOverwritesError ==
    [][(/\ running.pc = "cache_result"
        /\ RunFinishes
        /\ running.session_id \in DOMAIN journal_cache
        /\ "error" \in DOMAIN journal_cache[running.session_id]) =>
          LET entry == journal_cache'[running.session_id]
          IN /\ DOMAIN entry = {"summary_action", "related_memory"}
             /\ entry.summary_action = running.response
             /\ DOMAIN journal_cache' = DOMAIN journal_cache]_vars

W_C10 ==
    /\ LoopFree
    /\ \E s \in errored :
         /\ "summary_action" \in DOMAIN journal_cache[s]
         /\ "error" \notin DOMAIN journal_cache[s]

\* part occurs in text as a contiguous run
Contains(text, part) ==
    \E i \in 0..(Len(text) - Len(part)) : SubSeq(text, i + 1, i + Len(part)) = part

\* the step in which the running coroutine stores its success entry
SuccessWrite == running.pc = "cache_result" /\ RunFinishes

\* C11: a stored related_memory is at most 200 characters long and is the
\* first 200 characters of the selected remedy_context; the prompt holds the
\* whole remedy_context.
C11_RelatedMemoryTruncated ==
    [][/\ \A s \in DOMAIN journal_cache' :
            ("related_memory" \in DOMAIN journal_cache'[s]
               /\ journal_cache'[s].related_memory # NoneText)
            => Len(journal_cache'[s].related_memory) <= RelatedMemoryLimit
       /\ SuccessWrite =>
            LET related_memory == journal_cache'[running.session_id].related_memory
                remedy_context == running.remedy_context
            IN related_memory # NoneText =>
                 /\ remedy_context = running.similar_results[1][2]
                 /\ Len(related_memory) = Min(Len(remedy_context), RelatedMemoryLimit)
                 /\ \A i \in 1..Len(related_memory) : related_memory[i] = remedy_context[i]
                 /\ Contains(running.prompt, remedy_context)]_vars

W_C11 ==
    \E s \in DOMAIN journal_cache :
        /\ "related_memory" \in DOMAIN journal_cache[s]
        /\ journal_cache[s].related_memory # NoneText
        /\ Len(journal_cache[s].related_memory) = RelatedMemoryLimit
        /\ journal_cache[s].related_memory # LongContent

\* C12 as stated: the entry of a completed run is returned by a poll one
\* time, not repeatedly.
C12_DeliveredExactlyOnce == deliveries <= 1

\* C12 amended: a poll that returns an entry leaves it in the cache, so a
\* poll repeated while the entry stands returns it again.
C12_DeliveryKeepsEntry ==
    deliveries >= 1 =>
        /\ reply.handler = "get_journal"
        /\ reply.body.status = "done"
        /\ reply.body.session_id \in DOMAIN journal_cache
        /\ LET entry == journal_cache[reply.body.session_id]
           IN \A k \in DOMAIN entry : reply.body[k] = entry[k]

W_C12 == deliveries >= 2

\* C13: whatever entry the id already has and whatever other runs for the id
\* are created, a run's write leaves exactly that run's entry: its response,
\* or its error, and no field of another run.
C13_LastWriteWins ==
    [][RunFinishes =>
         LET entry == journal_cache'[running.session_id]
         IN IF running.pc = "cache_result"
            THEN /\ DOMAIN entry = {"summary_action", "related_memory"}
                 /\ entry.summary_action = running.response
                 /\ (entry.related_memory = NoneText) <=> (running.remedy_context = <<>>)
                 /\ entry.related_memory # NoneText =>
                      \A i \in 1..Len(entry.related_memory) :
                          entry.related_memory[i] = running.remedy_context[i]
            ELSE /\ DOMAIN entry = {"error"}
                 /\ entry.error = running.e]_vars

W_C13 ==
    /\ running.pc = "except"
    /\ \E i \in 1..Len(ready) : ready[i] = running.session_id
    /\ running.session_id \in DOMAIN journal_cache
    /\ "summary_action" \in DOMAIN journal_cache[running.session_id]

\* C14: the coroutine gives up the loop thread at each collaborator call, so
\* while it is inside one a poll can be answered and a created run can start.
C14_RunYieldsAtCalls ==
    running.pc \in CallPcs =>
        /\ \A s \in SessionIds : ENABLED GetJournal(s)
        /\ ready # <<>> => ENABLED StartTask

\* the step in which search_similar returns
SearchReturns == running.pc = "search_similar" /\ running'.pc = "generate_response"

UsesContext(frame) ==
    /\ frame.remedy_context = frame.similar_results[1][2]
    /\ frame.prompt = PromptWithContext(frame.full_doc, frame.similar_results[1][2])
    /\ Contains(frame.prompt, frame.similar_results[1][2])

UsesNoContext(frame) == frame.prompt = PromptNoContext(frame.full_doc)

\* C15 as stated: every non-empty candidate list gives the with-context
\* template and a present related_memory; the no-context template and an
\* absent related_memory occur only for the empty list.
C15_NonEmptyListGivesContext ==
    [][/\ SearchReturns =>
            /\ running'.similar_results # <<>> => UsesContext(running')
            /\ UsesNoContext(running') => running'.similar_results = <<>>
       /\ SuccessWrite =>
            LET related_memory == journal_cache'[running.session_id].related_memory
            IN /\ running.similar_results # <<>> => related_memory # NoneText
               /\ related_memory = NoneText => running.similar_results = <<>>]_vars

\* the candidate list is non-empty and its first content is a non-empty string
HasContext(similar_results) ==
    /\ similar_results # <<>>
    /\ similar_results[1][2] # <<>>

\* C15 amended: every candidate list whose first content is non-empty gives
\* the with-context template with that content and a present related_memory,
\* whatever the scores; the no-context template and an absent related_memory
\* occur only for the empty list or an empty first content.
C15_FirstContentGivesContext ==
    [][/\ SearchReturns =>
            /\ HasContext(running'.similar_results) => UsesContext(running')
            /\ UsesNoContext(running') => ~HasContext(running'.similar_results)
       /\ SuccessWrite =>
            LET related_memory == journal_cache'[running.session_id].related_memory
            IN /\ HasContext(running.similar_results) => related_memory # NoneText
               /\ related_memory = NoneText => ~HasContext(running.similar_results)]_vars

W_C15 ==
    /\ running.pc = "cache_result"
    /\ Len(running.similar_results) > 1
    /\ running.similar_results[1][1] < running.similar_results[2][1]
    /\ running.remedy_context = running.similar_results[1][2]

\* C16: no events and no candidates is not an error: the prompt is the
\* no-context template around an empty document, a returning backend leads
\* to the success write, and the entry is the response with no related_memory.
C16_EmptySessionSucceeds ==
    [][(/\ running.pc \in {"generate_response", "cache_result"}
        /\ running.raw_events = <<>>
        /\ running.similar_results = <<>>) =>
          /\ running.full_doc = <<>>
          /\ running.prompt = PromptNoContext(<<>>)
          /\ (running.pc = "generate_response" /\ running'.response # NoneText)
               => running'.pc = "cache_result"
          /\ running.pc = "cache_result" =>
               /\ RunFinishes
               /\ journal_cache'[running.session_id] =
                    [summary_action |-> running.response, related_memory |-> NoneText]]_vars

W_C16 ==
    /\ running.pc = "cache_result"
    /\ running.raw_events = <<>>
    /\ running.similar_results = <<>>

\* the order of the coroutine's positions
PcOrder ==
    { <<"idle", "process_session">>,
      <<"process_session", "get_raw_events">>,
      <<"get_raw_events", "search_similar">>,
      <<"search_similar", "generate_response">>,
      <<"generate_response", "cache_result">>,
      <<"cache_result", "idle">>,
      <<"except", "idle">> }
    \cup { <<pc, "except">> : pc \in CallPcs }

\* C17: a run calls process_session, the fetch, search_similar and
\* generate_response in this order, each once, and goes to the except branch
\* on the first failure with no retry; the cache is written only in the run's
\* last step, and a success entry only after generate_response returned,
\* with its return value as summary_action.
C17_CallOrder ==
    [][/\ running'.pc # running.pc => <<running.pc, running'.pc>> \in PcOrder
       /\ (running'.pc = running.pc /\ running' # running) => running'.blocked
       /\ (running.pc # "idle" /\ ~RunFinishes) =>
            /\ journal_cache' = journal_cache
            /\ running'.session_id = running.session_id
       /\ RunFinishes =>
            /\ running.session_id \in DOMAIN journal_cache'
            /\ "summary_action" \in DOMAIN journal_cache'[running.session_id] =>
                 /\ running.pc = "cache_result"
                 /\ running.response \in Responses
                 /\ journal_cache'[running.session_id].summary_action = running.response
       /\ running'.pc = "generate_response" => Len(running'.similar_results) <= TopK]_vars

W_C17 ==
    /\ running.pc = "except"
    /\ running.prompt # NoneText
    /\ running.response = NoneText

IsSpeechOrScreen(event) == event.source = "ocr" \/ event.source = "asr"

RECURSIVE JoinedUpTo(_, _)
\* the first k texts, each after the first preceded by a newline
JoinedUpTo(events, k) ==
    IF k = 0 THEN <<>>
    ELSE IF k = 1 THEN events[1].text
    ELSE JoinedUpTo(events, k - 1) \o <<NL>> \o events[k].text

\* C19: the document is the texts of the fetched events of source ocr or
\* asr, in fetched order, with a newline between neighbours.
C19_SessionDocument ==
    running.full_doc # NoneText =>
        LET kept == SelectSeq(running.raw_events, IsSpeechOrScreen)
        IN /\ running.full_doc = JoinedUpTo(kept, Len(kept))
           /\ Len(running.raw_events) = 3 => running.full_doc = <<"a", NL, "b">>

W_C19 ==
    /\ Len(running.raw_events) = 3
    /\ running.full_doc = <<"a", NL, "b">>

\* C20: a run keeps the loop thread from its start to its cache write: no
\* handler replies and no task is created or started in between, and runs
\* start in the order in which end_session created them.
C20_RunsAreAtomic ==
    [][/\ reply'.handler # "none" => (running.pc = "idle" /\ running'.pc = "idle")
       /\ running.pc # "idle" =>
            /\ ready' = ready
            /\ journal_cache' # journal_cache => RunFinishes
       /\ (running.pc = "idle" /\ running'.pc # "idle") =>
            /\ ready # <<>>
            /\ running'.session_id = Head(ready)
            /\ ready' = Tail(ready)]_vars

W_C20 ==
    /\ running.pc = "generate_response"
    /\ \E i \in 1..Len(ready) : ready[i] = running.session_id
    /\ running.session_id \in DOMAIN journal_cache

\* C21: no step removes a cache entry, so the ids having an entry only grow,
\* and a poll for an id that has an entry and a run still created or running
\* answers "done" with that earlier entry.
C21_EntriesNeverRemoved ==
    [][/\ DOMAIN journal_cache \subseteq DOMAIN journal_cache'
       /\ \A s \in DOMAIN journal_cache :
            (InFlight(s) /\ GetJournal(s)) =>
              /\ reply'.body.status = "done"
              /\ \A k \in DOMAIN journal_cache[s] : reply'.body[k] = journal_cache[s][k]
              /\ journal_cache'[s] = journal_cache[s]]_vars

W_C21 ==
    /\ reply.handler = "get_journal"
    /\ reply.body.status = "done"
    /\ "error" \in DOMAIN reply.body
    /\ InFlight(reply.body.session_id)
    /\ DOMAIN journal_cache = SessionIds

\* C22: a poll changes nothing but its reply; only ids for which end_session
\* was called have an entry; a poll repeated with no step in between gives
\* the same reply; a poll for an id never triggered answers "processing".
C22_PollIsReadOnly ==
    [][/\ DOMAIN journal_cache' \subseteq triggered'
       /\ \A s \in SessionIds :
            GetJournal(s) =>
              /\ journal_cache' = journal_cache
              /\ ready' = ready
              /\ running' = running
              /\ triggered' = triggered
              /\ (reply.handler = "get_journal" /\ reply.body.session_id = s)
                   => reply'.body = reply.body
              /\ s \notin triggered =>
                   reply'.body = [status |-> "processing", session_id |-> s]]_vars

W_C22 ==
    /\ reply.handler = "get_journal"
    /\ reply.body.status = "processing"
    /\ reply.body.session_id \notin triggered
    /\ journal_cache # [s \in {} |-> PyNone]
    /\ ready # <<>>

====
